---- MODULE Spec2Model ----
(***************************************************************************)
(* The four-stage content pipeline (content_planner.py,                    *)
(* script_generator.py, video_producer.py, youtube_publisher.py), the four *)
(* SQLite stores the stage scripts write, and the HTTP handlers of         *)
(* backend/src/routes/workflow.py that start the scripts as subprocesses.  *)
(*                                                                         *)
(* A request slot is one thread of the HTTP server; the server handles     *)
(* requests on separate threads (main.py calls app.run without             *)
(* threaded=False), and no handler takes a lock, so the slots interleave   *)
(* freely.  Every SQL statement of the scripts is its own transaction      *)
(* (each one opens its own "with sqlite3.connect(...)"), so a script's     *)
(* SELECT, INSERT and UPDATE are separate steps.                           *)
(***************************************************************************)
EXTENDS Integers, Sequences, FiniteSets, TLC

\* ---- bounds of the model ------------------------------------------------
NumReq == 2          \* request slots (server threads)
MaxRequests == 2     \* requests the server receives in one run of the model
NumTitles == 2       \* distinct topic titles the planner can produce
MaxTopics == 2       \* cap on the topics AUTOINCREMENT counter
MaxScripts == 2      \* cap on the scripts AUTOINCREMENT counter
MaxProjects == 1     \* cap on the projects AUTOINCREMENT counter
MaxUploads == 2      \* cap on the number of uploads the platform accepts

\* ---- program constants --------------------------------------------------
ScriptLimit == 3     \* script_generator.py: LIMIT 3
ProduceLimit == 2    \* video_producer.py: LIMIT 2
PublishLimit == 1    \* youtube_publisher.py: LIMIT 1

Reqs == 1..NumReq
Titles == 1..NumTitles
Stages == 1..4

\* The stage scripts in the order run_full_workflow starts them.
ScriptOf(k) ==
    CASE k = 1 -> "content_planner.py"
      [] k = 2 -> "script_generator.py"
      [] k = 3 -> "video_producer.py"
      [] k = 4 -> "youtube_publisher.py"

\* 'step' of the results entry run_full_workflow appends for stage k.
StepName(k) ==
    CASE k = 1 -> "Content Planning"
      [] k = 2 -> "Script Generation"
      [] k = 3 -> "Video Production"
      [] k = 4 -> "YouTube Publishing"

\* The stage a single-stage endpoint runs.
StageOfKind(kd) ==
    CASE kd = "topics_generate" -> 1
      [] kd = "scripts_generate" -> 2
      [] kd = "projects_produce" -> 3
      [] kd = "publishing_publish" -> 4
      [] kd = "run_full" -> 1

\* 'message' of a single-stage endpoint's success response.
SuccessMessage(kd) ==
    CASE kd = "topics_generate" -> "Content topics generated successfully"
      [] kd = "scripts_generate" -> "Scripts generated successfully"
      [] kd = "projects_produce" -> "Videos produced successfully"
      [] kd = "publishing_publish" -> "Videos published successfully"

StageKinds == {"topics_generate", "scripts_generate", "projects_produce",
               "publishing_publish", "run_full"}

VARIABLES
    topics,     \* rows of content_topics.db: [id, title, status]
    scripts,    \* rows of video_scripts.db: [id, topic_id, status]
    projects,   \* rows of video_projects.db: [id, script_id, status]
    records,    \* rows of publishing_records.db: [id, project_id, video_id]
    seq,        \* sqlite_sequence of each table (last AUTOINCREMENT id)
    dbs,        \* the database files that exist
    uploads,    \* the video platform: [project_id, video_id] per upload
    approvals,  \* topic ids the approve endpoint was called for (history)
    kind,       \* per slot: the endpoint being handled, or "idle"
    pc,         \* per slot: "idle", "run", "exited", "done"
    stage,      \* per slot: the stage whose script was started last
    proc,       \* per slot: the subprocess [ph, todo, cur, rc, stderr]
    results,    \* per slot: run_full_workflow's results list
    resp,       \* per slot: the HTTP response
    calls,      \* per slot: the stages subprocess.run was called for (history)
    returned,   \* per slot: what each subprocess.run returned (history)
    moved,      \* per slot: projects its publisher moved to 'published' (history)
    served      \* number of requests received so far

dbvars == <<topics, scripts, projects, records, seq, dbs, uploads>>
vars == <<topics, scripts, projects, records, seq, dbs, uploads, approvals,
          kind, pc, stage, proc, results, resp, calls, returned, moved, served>>

NoProc == [ph |-> "none", todo |-> {}, cur |-> 0, rc |-> 0, stderr |-> <<>>]
NoResp == [code |-> 0]

Init ==
    /\ topics = {}
    /\ scripts = {}
    /\ projects = {}
    /\ records = {}
    /\ seq = [topics |-> 0, scripts |-> 0, projects |-> 0, records |-> 0]
    /\ dbs = {}
    /\ uploads = {}
    /\ approvals = {}
    /\ kind = [r \in Reqs |-> "idle"]
    /\ pc = [r \in Reqs |-> "idle"]
    /\ stage = [r \in Reqs |-> 0]
    /\ proc = [r \in Reqs |-> NoProc]
    /\ results = [r \in Reqs |-> <<>>]
    /\ resp = [r \in Reqs |-> NoResp]
    /\ calls = [r \in Reqs |-> <<>>]
    /\ returned = [r \in Reqs |-> <<>>]
    /\ moved = [r \in Reqs |-> {}]
    /\ served = 0

\* ---- SQL of the stage scripts -------------------------------------------

\* The result sets "SELECT ... ORDER BY col LIMIT n" can return from the
\* candidate rows S: n rows of S, or all of S when it has fewer.  The order
\* columns (trending_score, created_at with its one-second resolution) are not
\* part of the state, so any n rows can be the first n.
SelectLimit(S, n) ==
    {T \in SUBSET S : Cardinality(T) = IF Cardinality(S) < n THEN Cardinality(S) ELSE n}

IdsWithStatus(rows, st) == {x.id : x \in {y \in rows : y.status = st}}

\* UPDATE <table> SET status = st WHERE id = i
UpdateStatus(rows, i, st) ==
    {IF x.id = i THEN [x EXCEPT !.status = st] ELSE x : x \in rows}

\* ContentDatabase.save_topic: INSERT OR REPLACE INTO topics (title, ...).
\* title is UNIQUE, so a row with the same title is deleted first; the new
\* row gets the next AUTOINCREMENT id and the column default 'planned'.
SaveTopic(rows, i, t) ==
    {x \in rows : x.title # t} \cup {[id |-> i, title |-> t, status |-> "planned"]}

\* ScriptDatabase.save_script: INSERT INTO scripts (topic_id, ...); status
\* takes the column default 'draft'.
SaveScript(rows, i, tid) ==
    rows \cup {[id |-> i, topic_id |-> tid, status |-> "draft"]}

\* VideoProjectDatabase.save_project: INSERT INTO projects (script_id, ...);
\* status takes the column default 'produced'.
SaveProject(rows, i, sid) ==
    rows \cup {[id |-> i, script_id |-> sid, status |-> "produced"]}

\* Mutant of SavePublishRecord: project_id and video_id change places.
SavePublishRecordSwapped(rows, i, pid, vid) ==
    rows \cup {[id |-> i, project_id |-> vid, video_id |-> pid]}

\* PublishingDatabase.save_publish_record: INSERT INTO publishing_records.
SavePublishRecord(rows, i, pid, vid) ==
    rows \cup {[id |-> i, project_id |-> pid, video_id |-> vid]}

\* Mutant of Truthy: the status UPDATE runs whatever the save returned.
TruthyAlways(v) == TRUE

\* "if script_id:", "if project:", "if video_id:" in the scripts' main():
\* the status UPDATE runs only when the save (the upload) returned a value.
\* 0 stands for None.
Truthy(v) == v # 0

\* ---- the subprocess of a request ----------------------------------------

Running(r, k) == pc[r] = "run" /\ stage[r] = k

\* The script's process ends with exit code rc; subprocess.run returns.
\* logging writes to stderr, so stderr is never empty; an uncaught exception
\* adds the traceback.
Exited(r, rc) ==
    /\ pc' = [pc EXCEPT ![r] = "exited"]
    /\ proc' = [proc EXCEPT ![r] =
                  [ph |-> "none", todo |-> {}, cur |-> 0, rc |-> rc,
                   stderr |-> <<ScriptOf(stage[r]),
                                IF rc = 0 THEN "log" ELSE "traceback">>]]
    /\ returned' = [returned EXCEPT ![r] =
                      Append(@, [returncode |-> proc'[r].rc, stderr |-> proc'[r].stderr])]
    /\ UNCHANGED <<kind, stage, results, resp, calls, moved, served>>

\* The script goes on: phase ph, items todo still to process, item cur saved.
Goes(r, ph, todo, cur) ==
    /\ proc' = [proc EXCEPT ![r] = [@ EXCEPT !.ph = ph, !.todo = todo, !.cur = cur]]
    /\ UNCHANGED <<kind, pc, stage, results, resp, calls, returned, served>>

\* An uncaught exception ends the interpreter with exit code 1 and writes
\* nothing: a constructor at the top of main() raises before any database is
\* opened (openai.OpenAI() without an API key, YouTubeAPIManager's
\* _authenticate), or generate_script, produce_video or publish_video raises
\* on one of the selected rows before its insert (a json.loads or a .keys()
\* on what the language model returned).
ScriptCrash(r) ==
    /\ pc[r] = "run"
    /\ \/ proc[r].ph = "init"
       \/ stage[r] \in 2..4 /\ proc[r].ph = "loop" /\ proc[r].todo # {}
    /\ Exited(r, 1)
    /\ UNCHANGED <<dbvars, approvals>>

\* ---- content_planner.py -------------------------------------------------

\* main(): ContentDatabase() creates the database; the generator returns the
\* topics of this run.
PlannerInit(r) ==
    /\ Running(r, 1) /\ proc[r].ph = "init"
    /\ dbs' = dbs \cup {"content"}
    /\ \E T \in SUBSET Titles : Goes(r, "loop", T, 0)
    /\ UNCHANGED <<topics, scripts, projects, records, seq, uploads, approvals, moved>>

\* main(): one iteration of "for topic in topics: content_db.save_topic(topic)".
\* save_topic returns False on sqlite3.Error and the loop goes on.
PlannerSave(r) ==
    /\ Running(r, 1) /\ proc[r].ph = "loop"
    /\ \E t \in proc[r].todo :
         /\ Goes(r, "loop", proc[r].todo \ {t}, 0)
         /\ \/ /\ seq.topics < MaxTopics
               /\ topics' = SaveTopic(topics, seq.topics + 1, t)
               /\ seq' = [seq EXCEPT !.topics = @ + 1]
            \/ UNCHANGED <<topics, seq>>
    /\ UNCHANGED <<scripts, projects, records, dbs, uploads, approvals, moved>>

\* main(): get_planned_topics(5) after the loop; it has no try/except, so a
\* sqlite3.Error ends the script with exit code 1 after the topics were saved.
PlannerFinish(r) ==
    /\ Running(r, 1) /\ proc[r].ph = "loop" /\ proc[r].todo = {}
    /\ \E rc \in {0, 1} : Exited(r, rc)
    /\ UNCHANGED <<dbvars, approvals>>

\* ---- script_generator.py ------------------------------------------------

\* main(): ScriptDatabase() creates the database; return when the topics
\* database is missing or no topic is 'planned'; else the selected topics.
GenInit(r) ==
    /\ Running(r, 2) /\ proc[r].ph = "init"
    /\ dbs' = dbs \cup {"scripts"}
    /\ IF "content" \notin dbs
         THEN Exited(r, 0)
         ELSE \E T \in SelectLimit(IdsWithStatus(topics, "planned"), ScriptLimit) :
                IF T = {} THEN Exited(r, 0) ELSE Goes(r, "loop", T, 0)
    /\ UNCHANGED <<topics, scripts, projects, records, seq, uploads, approvals, moved>>

\* The values an INSERT of a save_* method can return: the next AUTOINCREMENT
\* id (cursor.lastrowid), or 0 for the None of its "except sqlite3.Error".
SaveOutcomes(last, cap) == {0} \cup (IF last < cap THEN {last + 1} ELSE {})

\* main(): generate_script and save_script for one selected topic; topic_id
\* is the id of the row as it was selected.  save_script returns None on
\* sqlite3.Error and the topic is skipped ("if script_id:").
GenSave(r) ==
    /\ Running(r, 2) /\ proc[r].ph = "loop"
    /\ \E t \in proc[r].todo, sid \in SaveOutcomes(seq.scripts, MaxScripts) :
         /\ scripts' = IF sid # 0 THEN SaveScript(scripts, sid, t) ELSE scripts
         /\ seq' = IF sid # 0 THEN [seq EXCEPT !.scripts = sid] ELSE seq
         /\ IF Truthy(sid)
              THEN Goes(r, "upd", proc[r].todo \ {t}, t)
              ELSE Goes(r, "loop", proc[r].todo \ {t}, 0)
    /\ UNCHANGED <<topics, projects, records, dbs, uploads, approvals, moved>>

\* main(): UPDATE topics SET status = 'scripted' WHERE id = topic['id'], in a
\* connection of its own and outside any try/except: a sqlite3.Error (database
\* is locked) ends the script with exit code 1 after the script row was saved.
GenUpdate(r) ==
    /\ Running(r, 2) /\ proc[r].ph = "upd"
    /\ \/ /\ topics' = UpdateStatus(topics, proc[r].cur, "scripted")
          /\ Goes(r, "loop", proc[r].todo, 0)
       \/ /\ UNCHANGED topics
          /\ Exited(r, 1)
    /\ UNCHANGED <<scripts, projects, records, seq, dbs, uploads, approvals, moved>>

\* main() of script_generator.py, video_producer.py and youtube_publisher.py
\* returns after the loop: exit code 0.
ScriptDone(r) ==
    /\ pc[r] = "run" /\ stage[r] \in 2..4
    /\ proc[r].ph = "loop" /\ proc[r].todo = {}
    /\ Exited(r, 0)
    /\ UNCHANGED <<dbvars, approvals>>

\* ---- video_producer.py --------------------------------------------------

\* main(): VideoProductionManager() creates the projects database; return
\* when the scripts database is missing or no script is 'draft'.
ProdInit(r) ==
    /\ Running(r, 3) /\ proc[r].ph = "init"
    /\ dbs' = dbs \cup {"projects"}
    /\ IF "scripts" \notin dbs
         THEN Exited(r, 0)
         ELSE \E T \in SelectLimit(IdsWithStatus(scripts, "draft"), ProduceLimit) :
                IF T = {} THEN Exited(r, 0) ELSE Goes(r, "loop", T, 0)
    /\ UNCHANGED <<topics, scripts, projects, records, seq, uploads, approvals, moved>>

\* VideoProductionManager.produce_video for one selected script: None when
\* the script row is not found, when compose_video fails, or when
\* save_project returns None; else the project row is inserted.
ProdSave(r) ==
    /\ Running(r, 3) /\ proc[r].ph = "loop"
    /\ \E s \in proc[r].todo, pid \in SaveOutcomes(seq.projects, MaxProjects) :
         LET found == \E x \in scripts : x.id = s
             saved == IF found THEN pid ELSE 0
         IN  /\ projects' = IF saved # 0 THEN SaveProject(projects, saved, s) ELSE projects
             /\ seq' = IF saved # 0 THEN [seq EXCEPT !.projects = saved] ELSE seq
             /\ IF Truthy(saved)
                  THEN Goes(r, "upd", proc[r].todo \ {s}, s)
                  ELSE Goes(r, "loop", proc[r].todo \ {s}, 0)
    /\ UNCHANGED <<topics, scripts, records, dbs, uploads, approvals, moved>>

\* main(): UPDATE scripts SET status = 'produced' WHERE id = script['id'],
\* outside any try/except.
ProdUpdate(r) ==
    /\ Running(r, 3) /\ proc[r].ph = "upd"
    /\ \/ /\ scripts' = UpdateStatus(scripts, proc[r].cur, "produced")
          /\ Goes(r, "loop", proc[r].todo, 0)
       \/ /\ UNCHANGED scripts
          /\ Exited(r, 1)
    /\ UNCHANGED <<topics, projects, records, seq, dbs, uploads, approvals, moved>>

\* ---- youtube_publisher.py -----------------------------------------------

\* main(): YouTubePublisher() creates the publishing database; return when
\* the projects database is missing or no project is 'produced'.
PubInit(r) ==
    /\ Running(r, 4) /\ proc[r].ph = "init"
    /\ dbs' = dbs \cup {"publishing"}
    /\ IF "projects" \notin dbs
         THEN Exited(r, 0)
         ELSE \E T \in SelectLimit(IdsWithStatus(projects, "produced"), PublishLimit) :
                IF T = {} THEN Exited(r, 0) ELSE Goes(r, "loop", T, 0)
    /\ UNCHANGED <<topics, scripts, projects, records, seq, uploads, approvals, moved>>

\* The video ids upload_video can return: a fresh id of the platform, or 0
\* for None (not authenticated, file missing, or the upload raised).
UploadOutcomes == {0} \cup (IF Cardinality(uploads) < MaxUploads
                              THEN {Cardinality(uploads) + 1} ELSE {})

\* YouTubePublisher.publish_video for the selected project: None when the
\* project or its script is not found or the upload returns None; else the
\* video is on the platform, save_publish_record is called and its result is
\* ignored (it returns None on sqlite3.Error), and the video id is returned.
PubPublish(r) ==
    /\ Running(r, 4) /\ proc[r].ph = "loop"
    /\ \E p \in proc[r].todo, v \in UploadOutcomes, rid \in {0, seq.records + 1} :
         LET found == \E x \in projects : x.id = p /\ \E y \in scripts : y.id = x.script_id
             vid == IF found THEN v ELSE 0
         IN  /\ uploads' = IF vid # 0 THEN uploads \cup {[project_id |-> p, video_id |-> vid]}
                                      ELSE uploads
             /\ records' = IF vid # 0 /\ rid # 0
                             THEN SavePublishRecord(records, rid, p, vid) ELSE records
             /\ seq' = IF vid # 0 /\ rid # 0 THEN [seq EXCEPT !.records = rid] ELSE seq
             /\ IF Truthy(vid)
                  THEN Goes(r, "upd", proc[r].todo \ {p}, p)
                  ELSE Goes(r, "loop", proc[r].todo \ {p}, 0)
    /\ UNCHANGED <<topics, scripts, projects, dbs, approvals, moved>>

\* main(): UPDATE projects SET status = 'published' WHERE id = project['id'],
\* outside any try/except.
PubUpdate(r) ==
    /\ Running(r, 4) /\ proc[r].ph = "upd"
    /\ \/ /\ projects' = UpdateStatus(projects, proc[r].cur, "published")
          /\ moved' = [moved EXCEPT ![r] =
                         @ \cup (IdsWithStatus(projects, "produced") \cap {proc[r].cur})]
          /\ Goes(r, "loop", proc[r].todo, 0)
       \/ /\ UNCHANGED projects
          /\ Exited(r, 1)
    /\ UNCHANGED <<topics, scripts, records, seq, dbs, uploads, approvals>>

\* ---- backend/src/routes/workflow.py -------------------------------------

\* None of a JSON body and of Python.
None == <<>>

\* The entry run_full_workflow appends to results after a stage's
\* subprocess.run returned ('output', the stdout, is left out).
ResultEntry(k, rc, stderr) ==
    [step |-> StepName(k), success |-> (rc = 0),
     error |-> IF rc # 0 THEN stderr ELSE None]

\* Mutant of EarlyExit: the handler goes on to the next stage after a failure.
EarlyExitNever(k, rc) == FALSE

\* "if result.returncode != 0: return ..." after stages 1, 2 and 3.
EarlyExit(k, rc) == k < 4 /\ rc # 0

\* The response after stage 4: jsonify(...) without a status code is HTTP 200.
FinalResponse(res) ==
    LET overall == \A i \in 1..Len(res) : res[i].success
    IN  [code |-> 200, results |-> res, success |-> overall,
         message |-> IF overall THEN "Full workflow completed"
                                ELSE "Workflow completed with errors"]

\* Mutant of EarlyExitResponse: the early return answers as the return after
\* stage 4 does, without the status code.
EarlyExitResponseNoCode(res) == FinalResponse(res)

\* The response of the early return.
EarlyExitResponse(res) == [code |-> 500, results |-> res, success |-> FALSE]

\* Mutant of StageResponse: the handler does not look at the exit code.
StageResponseIgnoresCode(kd, rc, stderr) ==
    [code |-> 200, success |-> TRUE, message |-> SuccessMessage(kd)]

\* The response of a single-stage endpoint after subprocess.run returned.
StageResponse(kd, rc, stderr) ==
    IF rc = 0
      THEN [code |-> 200, success |-> TRUE, message |-> SuccessMessage(kd)]
      ELSE [code |-> 500, success |-> FALSE, error |-> stderr]

\* "except Exception as e: return jsonify({'error': str(e)}), 500"
ExceptionResponse == [code |-> 500, error |-> "exception"]

\* The handler of endpoint kd, with results res so far, calls subprocess.run
\* for stage k: the script's process starts and the handler waits for it, or
\* the call raises (the interpreter cannot be started) and the handler's
\* except clause answers.
Call(r, kd, k, res) ==
    /\ kind' = [kind EXCEPT ![r] = kd]
    /\ stage' = [stage EXCEPT ![r] = k]
    /\ calls' = [calls EXCEPT ![r] = Append(@, k)]
    /\ results' = [results EXCEPT ![r] = res]
    /\ UNCHANGED <<returned, moved>>
    /\ \/ /\ pc' = [pc EXCEPT ![r] = "run"]
          /\ proc' = [proc EXCEPT ![r] = [NoProc EXCEPT !.ph = "init"]]
          /\ UNCHANGED resp
       \/ /\ pc' = [pc EXCEPT ![r] = "done"]
          /\ proc' = [proc EXCEPT ![r] = NoProc]
          /\ resp' = [resp EXCEPT ![r] = ExceptionResponse]

\* The handler returns response rp with results list res.
Respond(r, rp, res) ==
    /\ pc' = [pc EXCEPT ![r] = "done"]
    /\ resp' = [resp EXCEPT ![r] = rp]
    /\ results' = [results EXCEPT ![r] = res]
    /\ proc' = [proc EXCEPT ![r] = NoProc]
    /\ UNCHANGED <<kind, stage, calls, returned, moved>>

\* The server receives a request and hands it to thread r: the idle thread
\* with the lowest number (the threads are interchangeable).
Takes(r) ==
    /\ pc[r] = "idle"
    /\ \A q \in Reqs : q < r => pc[q] # "idle"
    /\ served < MaxRequests
    /\ served' = served + 1

\* A POST to topics/generate, scripts/generate, projects/produce,
\* publishing/publish or workflow/run-full arrives: the handler calls
\* subprocess.run for its (first) stage.
Receive(r) ==
    /\ Takes(r)
    /\ \E kd \in StageKinds : Call(r, kd, StageOfKind(kd), <<>>)
    /\ UNCHANGED <<dbvars, approvals>>

\* Mutant of StageResult: the handler runs the script again when it failed.
StageResultRetry(r) ==
    /\ pc[r] = "exited" /\ kind[r] # "run_full"
    /\ IF proc[r].rc # 0
         THEN Call(r, kind[r], stage[r], results[r])
         ELSE Respond(r, StageResponse(kind[r], proc[r].rc, proc[r].stderr), results[r])
    /\ UNCHANGED <<dbvars, approvals, served>>

\* generate_topics, generate_scripts, produce_videos, publish_videos after
\* subprocess.run returned.
StageResult(r) ==
    /\ pc[r] = "exited" /\ kind[r] # "run_full"
    /\ Respond(r, StageResponse(kind[r], proc[r].rc, proc[r].stderr), results[r])
    /\ UNCHANGED <<dbvars, approvals, served>>

\* run_full_workflow after subprocess.run of stage k returned: append the
\* entry, then return early, start the next stage, or return the final
\* response.
RunFullHandle(r) ==
    /\ pc[r] = "exited" /\ kind[r] = "run_full"
    /\ LET k == stage[r]
           res == Append(results[r], ResultEntry(k, proc[r].rc, proc[r].stderr))
       IN  IF EarlyExit(k, proc[r].rc)
             THEN Respond(r, EarlyExitResponse(res), res)
             ELSE IF k = 4
                    THEN Respond(r, FinalResponse(res), res)
                    ELSE Call(r, "run_full", k + 1, res)
    /\ UNCHANGED <<approvals, served, seq, dbs, uploads>>

\* Mutant of RunFullStep: the handler does not wait for the stage's process:
\* it starts the next stage while the previous one is still running.
RunFullNoWait(r) ==
    /\ pc[r] \in {"run", "exited"} /\ kind[r] = "run_full"
    /\ IF pc[r] = "run"
         THEN /\ stage[r] < 4
              /\ Call(r, "run_full", stage[r] + 1, results[r])
              /\ UNCHANGED <<approvals, served, seq, dbs, uploads>>
         ELSE RunFullHandle(r)
    /\ UNCHANGED <<topics, scripts, projects, records>>

\* Mutant of RunFullStep: a failed stage rolls the stores back.
RunFullRollback(r) ==
    /\ RunFullHandle(r)
    /\ IF proc[r].rc # 0
         THEN topics' = {} /\ scripts' = {} /\ projects' = {} /\ records' = {}
         ELSE UNCHANGED <<topics, scripts, projects, records>>

\* run_full_workflow touches no store: what the stages wrote stays.
RunFullStep(r) ==
    /\ RunFullHandle(r)
    /\ UNCHANGED <<topics, scripts, projects, records>>

\* approve_topic: 404 when the topics database is missing; else
\* UPDATE topics SET status = 'approved' WHERE id = topic_id, whatever status
\* the row has and whether or not a row has that id; a sqlite3.Error is
\* answered by the except clause.
ApproveTopic(r) ==
    /\ Takes(r)
    /\ \E id \in 1..MaxTopics, ok \in BOOLEAN :
         IF "content" \notin dbs
           THEN /\ resp' = [resp EXCEPT ![r] =
                              [code |-> 404, error |-> "Topics database not found"]]
                /\ UNCHANGED <<topics, approvals>>
           ELSE IF ok
             THEN /\ topics' = UpdateStatus(topics, id, "approved")
                  /\ approvals' = approvals \cup {x.id : x \in {y \in topics : y.id = id}}
                  /\ resp' = [resp EXCEPT ![r] =
                                [code |-> 200, success |-> TRUE, message |-> "Topic approved"]]
             ELSE /\ resp' = [resp EXCEPT ![r] = ExceptionResponse]
                  /\ UNCHANGED <<topics, approvals>>
    /\ kind' = [kind EXCEPT ![r] = "approve"]
    /\ pc' = [pc EXCEPT ![r] = "done"]
    /\ UNCHANGED <<scripts, projects, records, seq, dbs, uploads,
                   stage, proc, results, calls, returned, moved>>

\* "SELECT status, COUNT(*) FROM t GROUP BY status": one row per status that
\* occurs.
GroupByStatus(rows) ==
    [s \in {x.status : x \in rows} |-> Cardinality({x \in rows : x.status = s})]

\* Mutant of Section: 'total' counts the GROUP BY rows instead of the rows.
SectionGroups(defaults, rows, exists) ==
    IF ~exists THEN defaults
    ELSE LET g == GroupByStatus(rows)
         IN  [k \in DOMAIN defaults \cup DOMAIN g |->
                IF k = "total" THEN Cardinality(DOMAIN g)
                ELSE IF k \in DOMAIN g THEN g[k] ELSE defaults[k]]

\* One section of get_workflow_status: the predefined counts stay when the
\* database file is missing; else every GROUP BY row sets its key and
\* COUNT(*) sets 'total'.
Section(defaults, rows, exists) ==
    IF ~exists THEN defaults
    ELSE LET g == GroupByStatus(rows)
         IN  [k \in DOMAIN defaults \cup DOMAIN g |->
                IF k = "total" THEN Cardinality(rows)
                ELSE IF k \in DOMAIN g THEN g[k] ELSE defaults[k]]

\* The publishing section: total and published are both COUNT(*).
PublishingSection(rows, exists) ==
    IF ~exists THEN [total |-> 0, published |-> 0]
    ELSE [total |-> Cardinality(rows), published |-> Cardinality(rows)]

\* The body of get_workflow_status.
StatusReport ==
    [topics |-> Section([total |-> 0, planned |-> 0, approved |-> 0, scripted |-> 0],
                        topics, "content" \in dbs),
     scripts |-> Section([total |-> 0, draft |-> 0, produced |-> 0],
                         scripts, "scripts" \in dbs),
     projects |-> Section([total |-> 0, produced |-> 0, published |-> 0],
                          projects, "projects" \in dbs),
     publishing |-> PublishingSection(records, "publishing" \in dbs)]

\* get_workflow_status: the report, or the answer of the except clause when
\* a query on an existing database raises sqlite3.Error.
WorkflowStatus(r) ==
    /\ Takes(r)
    /\ kind' = [kind EXCEPT ![r] = "status"]
    /\ pc' = [pc EXCEPT ![r] = "done"]
    /\ \/ resp' = [resp EXCEPT ![r] = [code |-> 200, status |-> StatusReport]]
       \/ /\ dbs # {}
          /\ resp' = [resp EXCEPT ![r] = ExceptionResponse]
    /\ UNCHANGED <<dbvars, approvals, stage, proc, results, calls, returned, moved>>

\* The response is sent; the thread takes the next request.
Finish(r) ==
    /\ pc[r] = "done"
    /\ kind' = [kind EXCEPT ![r] = "idle"]
    /\ pc' = [pc EXCEPT ![r] = "idle"]
    /\ stage' = [stage EXCEPT ![r] = 0]
    /\ proc' = [proc EXCEPT ![r] = NoProc]
    /\ results' = [results EXCEPT ![r] = <<>>]
    /\ resp' = [resp EXCEPT ![r] = NoResp]
    /\ calls' = [calls EXCEPT ![r] = <<>>]
    /\ returned' = [returned EXCEPT ![r] = <<>>]
    /\ moved' = [moved EXCEPT ![r] = {}]
    /\ UNCHANGED <<dbvars, approvals, served>>

Next ==
    \E r \in Reqs :
      \/ Receive(r)
      \/ StageResult(r)
      \/ RunFullStep(r)
      \/ ApproveTopic(r)
      \/ WorkflowStatus(r)
      \/ Finish(r)
      \/ ScriptCrash(r)
      \/ PlannerInit(r)
      \/ PlannerSave(r)
      \/ PlannerFinish(r)
      \/ GenInit(r)
      \/ GenSave(r)
      \/ GenUpdate(r)
      \/ ProdInit(r)
      \/ ProdSave(r)
      \/ ProdUpdate(r)
      \/ PubInit(r)
      \/ PubPublish(r)
      \/ PubUpdate(r)
      \/ ScriptDone(r)

Spec == Init /\ [][Next]_vars

\* ==== Properties ==========================================================

RunFull(r) == kind[r] = "run_full"

\* The response of slot r carries a results list.
HasResults(r) == "results" \in DOMAIN resp[r]

\* C1: in a run-full request the stages are called in the order 1, 2, 3, 4
\* (Content Planning, Script Generation, Video Production, YouTube
\* Publishing), stage k only after every stage before it returned exit code
\* 0, and the results list of the response names the called stages in that
\* order.
C1_StageOrder ==
    \A r \in Reqs : RunFull(r) =>
      /\ Len(calls[r]) \in 1..4
      /\ \A i \in 1..Len(calls[r]) : calls[r][i] = i
      /\ \A i \in 1..Len(calls[r]) : \A j \in 1..(i - 1) :
           /\ Len(returned[r]) >= j
           /\ returned[r][j].returncode = 0
      /\ HasResults(r) =>
           /\ Len(resp[r].results) = Len(calls[r])
           /\ \A i \in 1..Len(calls[r]) :
                resp[r].results[i].step = StepName(calls[r][i])

\* C1 witness: a run-full request answered after all four stages ran.
C1_Witness ==
    \E r \in Reqs :
      /\ RunFull(r) /\ pc[r] = "done" /\ HasResults(r)
      /\ Len(resp[r].results) = 4

\* C2: when stage k (1, 2 or 3) of a run-full request returns a non-zero exit
\* code, no later stage is called in that request and the response is HTTP
\* 500 with success false and a results list of exactly k entries whose last
\* entry has success false and the stderr of stage k.
C2_EarlyExit ==
    \A r \in Reqs : RunFull(r) =>
      \A k \in 1..3 :
        (Len(returned[r]) >= k /\ returned[r][k].returncode # 0) =>
          /\ Len(calls[r]) = k
          /\ pc[r] \in {"exited", "done"}
          /\ pc[r] = "done" =>
               /\ resp[r].code = 500
               /\ HasResults(r)
               /\ resp[r].success = FALSE
               /\ Len(resp[r].results) = k
               /\ resp[r].results[k].success = FALSE
               /\ resp[r].results[k].error = returned[r][k].stderr

\* C2 witness: a run-full request answered after its second stage failed.
C2_Witness ==
    \E r \in Reqs :
      /\ RunFull(r) /\ pc[r] = "done"
      /\ Len(returned[r]) = 2 /\ returned[r][2].returncode # 0

\* C3: within one request no stage script is called twice: a run-full request
\* makes at most four calls, one per stage, and a single-stage request makes
\* exactly one call, whatever exit code the script returns.
C3_NoRetry ==
    \A r \in Reqs : kind[r] \in StageKinds =>
      /\ \A i, j \in 1..Len(calls[r]) : i # j => calls[r][i] # calls[r][j]
      /\ RunFull(r) => Len(calls[r]) <= 4
      /\ ~RunFull(r) => calls[r] = <<StageOfKind(kind[r])>>

\* C3 witness: a single-stage request answered after its script failed.
C3_Witness ==
    \E r \in Reqs :
      /\ kind[r] = "publishing_publish" /\ pc[r] = "done"
      /\ Len(returned[r]) = 1 /\ returned[r][1].returncode # 0

\* C4 as stated: at any time at most one stage script subprocess is running,
\* across all the requests being handled.
C4_OneSubprocess == Cardinality({r \in Reqs : pc[r] = "run"}) <= 1

\* C4 as amended: within one request at most one stage script subprocess is
\* running at any time: every call of subprocess.run but the last one of the
\* request has returned.
C4_OnePerRequest ==
    \A r \in Reqs :
      /\ Len(returned[r]) <= Len(calls[r])
      /\ Len(calls[r]) <= Len(returned[r]) + 1
      /\ pc[r] = "run" => Len(calls[r]) = Len(returned[r]) + 1

\* C4 witness: the third stage of a run-full request runs while the script of
\* another request runs.
C4_Witness ==
    \E r, q \in Reqs :
      /\ r # q /\ pc[r] = "run" /\ pc[q] = "run"
      /\ RunFull(r) /\ stage[r] = 3

\* A run-full request learns that a stage failed and answers.
FailedAnswer(r) ==
    /\ RunFull(r) /\ pc[r] = "exited" /\ proc[r].rc # 0
    /\ pc'[r] = "done"

\* C5: when a stage of a run-full request fails, the handler's answer leaves
\* every row of the four stores as the stages wrote it: nothing is rolled back
\* or deleted.
C5_NoRollback ==
    [][\A r \in Reqs : FailedAnswer(r) =>
         /\ topics' = topics
         /\ scripts' = scripts
         /\ projects' = projects
         /\ records' = records]_vars

\* C5 witness: the only request so far is a run-full request answered after
\* its third stage failed, and the rows its first two stages wrote are there.
C5_Witness ==
    \E r \in Reqs :
      /\ served = 1 /\ RunFull(r) /\ pc[r] = "done"
      /\ Len(returned[r]) = 3 /\ returned[r][3].returncode # 0
      /\ topics # {} /\ scripts # {}

\* C6: a topic with status 'scripted' has a scripts row with its id as
\* topic_id, a script with status 'produced' has a projects row with its id as
\* script_id, and a project with status 'published' was uploaded with a video
\* id returned.
C6_DoneAfterPersisted ==
    /\ \A t \in topics : t.status = "scripted" =>
         \E s \in scripts : s.topic_id = t.id
    /\ \A s \in scripts : s.status = "produced" =>
         \E p \in projects : p.script_id = s.id
    /\ \A p \in projects : p.status = "published" =>
         \E u \in uploads : u.project_id = p.id /\ u.video_id # 0

\* C6 witness: a scripted topic, a produced script and a published project.
C6_Witness ==
    /\ \E t \in topics : t.status = "scripted"
    /\ \E s \in scripts : s.status = "produced"
    /\ \E p \in projects : p.status = "published"

\* C7 as stated: a script is created only for a topic that was approved.
C7_OnlyApprovedScripted ==
    \A s \in scripts : s.topic_id \in approvals

\* The counts the status endpoint is to report for a store: the number of
\* rows, and for every status of sts the number of rows with it.
Counts(rows, sts) ==
    [k \in sts \cup {"total"} |->
       IF k = "total" THEN Cardinality(rows)
       ELSE Cardinality({x \in rows : x.status = k})]

C9_PipelineOrder ==
    /\ \A x \in records : \E p \in projects : p.id = x.project_id
    /\ \A p \in projects : \E s \in scripts : s.id = p.script_id

\* C9 witness: two publishing records and a project.
C9_Witness == Cardinality(records) = 2 /\ projects # {}

\* C10 as stated: when publishing/publish answers success with 'Videos
\* published successfully', at least one project was uploaded and moved from
\* 'produced' to 'published' during the request.
C10_SuccessMeansPublished ==
    \A r \in Reqs :
      (/\ kind[r] = "publishing_publish" /\ pc[r] = "done"
       /\ resp[r].code = 200) =>
        \E p \in moved[r] : \E u \in uploads : u.project_id = p

\* C11 as stated: a run-full response whose body has success false carries
\* HTTP 500, whichever of the four stages failed, and a run-full response is
\* HTTP 200 only when all four stages returned exit code 0.
C11_FailureIs500 ==
    \A r \in Reqs : (RunFull(r) /\ pc[r] = "done") =>
      /\ ("success" \in DOMAIN resp[r] /\ resp[r].success = FALSE) =>
           resp[r].code = 500
      /\ resp[r].code = 200 =>
           /\ Len(returned[r]) = 4
           /\ \A i \in 1..4 : returned[r][i].returncode = 0

\* The single-stage endpoints.
SingleStage(r) ==
    kind[r] \in {"topics_generate", "scripts_generate", "projects_produce",
                 "publishing_publish"}

\* C12: a single-stage endpoint answers HTTP 200 with success true exactly
\* when its script returned exit code 0; when the script returned another exit
\* code it answers HTTP 500 with success false and the script's stderr as
\* error; when starting the script raised it answers HTTP 500 with an error
\* field and no success field.
C12_StageResponses ==
    \A r \in Reqs : (SingleStage(r) /\ pc[r] = "done") =>
      /\ Len(returned[r]) <= 1
      /\ resp[r].code \in {200, 500}
      /\ resp[r].code = 200 <=>
           (Len(returned[r]) = 1 /\ returned[r][1].returncode = 0)
      /\ resp[r].code = 200 =>
           /\ resp[r].success = TRUE
           /\ resp[r].message = SuccessMessage(kind[r])
      /\ (Len(returned[r]) = 1 /\ returned[r][1].returncode # 0) =>
           /\ resp[r].code = 500
           /\ resp[r].success = FALSE
           /\ resp[r].error = returned[r][1].stderr
      /\ returned[r] = <<>> =>
           /\ resp[r].code = 500
           /\ "error" \in DOMAIN resp[r]
           /\ "success" \notin DOMAIN resp[r]

\* C12 witness: one single-stage request answered 200 after its script
\* returned 0 and another answered 500 after its script returned 1.
C12_Witness ==
    \E r, q \in Reqs :
      /\ r # q /\ SingleStage(r) /\ SingleStage(q)
      /\ pc[r] = "done" /\ pc[q] = "done"
      /\ resp[r].code = 200 /\ Len(returned[r]) = 1
      /\ resp[q].code = 500 /\ Len(returned[q]) = 1

\* The status of the topics row with title t is st.
TitleHas(t, st) == \E x \in topics : x.title = t /\ x.status = st

\* C13 as stated: once the topic with a title has status 'scripted', no step
\* of a planner run, an approve request or a script-generation run gives the
\* topic with that title status 'planned' again.
C13_NeverPlannedAgain ==
    [][\A t \in Titles : TitleHas(t, "scripted") => ~TitleHas(t, "planned")']_vars

\* C14 as stated: no two scripts rows have the same topic_id.
C14_OneScriptPerTopic ==
    \A s1, s2 \in scripts : s1.topic_id = s2.topic_id => s1.id = s2.id

\* C15 as stated: no project was uploaded to the video platform twice.
C15_UploadedOnce ==
    \A u1, u2 \in uploads : u1.project_id = u2.project_id => u1.video_id = u2.video_id

\* C16 as stated: every project with status 'published' has a publishing
\* record with its project_id.
C16_PublishedHasRecord ==
    \A p \in projects : p.status = "published" =>
      \E x \in records : x.project_id = p.id

\* C17 as stated: the topic_id of every scripts row is the id of a topics row.
C17_ScriptTopicExists ==
    \A s \in scripts : \E t \in topics : t.id = s.topic_id

====
